---- MODULE Spec2Model ----
(***************************************************************************)
(* A model of dataset.py: the Pushshift collector (get_posts,              *)
(* create_dataset), the preprocessor, the splitter, the CSV writer and the *)
(* module-level script that runs them in sequence.                         *)
(*                                                                         *)
(* JSON values are modelled as strings; NULL stands for JSON null / None.  *)
(* A raw post is a function from the keys it carries to their values.      *)
(* The split ratio is a rational <<num, den>> (the float of the source is  *)
(* taken as exact).                                                        *)
(***************************************************************************)
EXTENDS Integers, Sequences, FiniteSets, TLC

\* ------------------------------------------------------------------ bounds
MaxDays == 2
MaxFetch == 2
MainDays == 2
MainFetch == 1
MaxLen == 3
RatioDen == 5

\* ------------------------------------------------------- program constants
MaxSize == 500
DefaultPerDay == 500
DefaultRatio == <<4, 5>>
WANTED_KEYS == <<"author", "created_utc", "title", "link_flair_text">>
DATA_PATH == "./data/"
NULL == "None"

\* ----------------------------------------------------------------- helpers
Range(s) == {s[k] : k \in 1..Len(s)}

BoundedSeq(S, n) == UNION {[1..m -> S] : m \in 0..n}

Restrict(f, D) == [k \in D |-> f[k]]

WantedSet == Range(WANTED_KEYS)

FlairKey == WANTED_KEYS[Len(WANTED_KEYS)]

\* ------------------------------------------------------------- input sets
Keys == WantedSet \cup {"score"}

FullPosts ==
    [author : {"a"}, created_utc : {"1000"}, title : {"T"},
     link_flair_text : {"F", NULL}, score : {"99"}]

\* Key sets of a raw post: at most one of author, created_utc, title is
\* missing; the flair and the extra key are each present or absent.
Domains ==
    {D \in SUBSET Keys : Cardinality({"author", "created_utc", "title"} \ D) <= 1}

RawPosts == {Restrict(p, D) : p \in FullPosts, D \in Domains}

Flaired == [author |-> "a", created_utc |-> "1000", title |-> "T",
            link_flair_text |-> "F", score |-> "99"]

\* What the API may return to the whole-script run: a complete flaired post,
\* its twin without the extra key, an unflaired post and flaired posts
\* lacking one of the three other wanted keys.
MainPosts ==
    {Flaired,
     Restrict(Flaired, WantedSet),
     Restrict(Flaired, {"author", "created_utc", "title"}),
     Restrict(Flaired, Keys \ {"author"}),
     Restrict(Flaired, Keys \ {"created_utc"}),
     Restrict(Flaired, Keys \ {"title"})}

\* create_dataset never looks inside a post: two distinct posts suffice.
CollectPosts == {Flaired, Restrict(Flaired, {"author", "created_utc", "title"})}

MainPages == BoundedSeq(MainPosts, MainFetch)

CollectPages == BoundedSeq(CollectPosts, MaxFetch)

PerDayValues == {1, MaxSize, MaxSize + 1}

Ratios == {<<n, RatioDen>> : n \in 0..RatioDen}

SplitItems == {Restrict(Flaired, WantedSet),
               [Restrict(Flaired, WantedSet) EXCEPT !.title = "U"]}

\* ------------------------------------------------------------ get_posts
\* '{}d'.format(i)
BeforeParam(d) == ToString(d) \o "d"

\* size=nb_per_day
RequestSizeUnclamped(n) == n

\* size=min(nb_per_day, 500)
RequestSize(n) == IF n < MaxSize THEN n ELSE MaxSize

Parameters(subreddit, before, size) ==
    [subreddit |-> subreddit, before |-> before, size |-> size]

\* ------------------------------------------------------------ preprocess
\* for post in dataset: if post not in posts and WANTED_KEYS[-1] in post
RECURSIVE Dedup(_, _)
Dedup(ds, acc) ==
    IF ds = <<>> THEN acc
    ELSE LET post == Head(ds)
         IN  IF post \notin Range(acc) /\ FlairKey \in DOMAIN post
             THEN Dedup(Tail(ds), Append(acc, post))
             ELSE Dedup(Tail(ds), acc)

\* A lookup that never fails, as post.get(key) would.
LookupGet(post, key) ==
    IF key \in DOMAIN post THEN <<"ok", post[key]>> ELSE <<"ok", NULL>>

\* post[key]: the value, or a KeyError
Lookup(post, key) ==
    IF key \in DOMAIN post THEN <<"ok", post[key]>> ELSE <<"KeyError", key>>

\* A comprehension over the post's own keys: nothing is dropped.
ProjectAll(post) == [key \in DOMAIN post |-> Lookup(post, key)]

\* {key: post[key] for key in WANTED_KEYS}
Project(post) == [key \in WantedSet |-> Lookup(post, key)]

\* The comprehension raises when one of its lookups does.
ProjectRaises(post) == \E key \in WantedSet : Lookup(post, key)[1] = "KeyError"

ProjectValue(post) ==
    LET r == Project(post) IN [key \in DOMAIN r |-> r[key][2]]

PreprocessRaises(ds) == \E k \in 1..Len(Dedup(ds, <<>>)) : ProjectRaises(Dedup(ds, <<>>)[k])

PreprocessResult(ds) ==
    LET posts == Dedup(ds, <<>>)
    IN  [k \in 1..Len(posts) |-> ProjectValue(posts[k])]

\* ----------------------------------------------------- shuffle_and_split
\* random.shuffle(dataset): every arrangement of the list
Shuffles(s) ==
    {[k \in 1..Len(s) |-> s[f[k]]] : f \in Permutations(1..Len(s))}

\* int(ratio * len(dataset))
SplitIndex(r, n) == (r[1] * n) \div r[2]

\* dataset[:split_index]
TrainSlice(s, idx) == SubSeq(s, 1, idx)

\* dataset[split_index + 1:]
TestSliceOffByOne(s, idx) == SubSeq(s, idx + 2, Len(s))

\* dataset[split_index:]
TestSlice(s, idx) == SubSeq(s, idx + 1, Len(s))

\* ----------------------------------------------------------- write_to_csv
\* os.path.join(DATA_PATH, filename)
PathJoin(dir, filename) == dir \o filename

\* csv.DictWriter writes None as the empty field
CsvField(v) == IF v = NULL THEN "" ELSE v

CsvRow(post) == [k \in 1..Len(WANTED_KEYS) |-> CsvField(post[WANTED_KEYS[k]])]

CsvFile(path, ds) ==
    [path |-> path, header |-> WANTED_KEYS,
     rows |-> [k \in 1..Len(ds) |-> CsvRow(ds[k])]]

\* ------------------------------------------------------------------ state
VARIABLES
    pc,          \* position in the script
    days,        \* create_dataset's argument
    nb_per_day,  \* create_dataset's argument
    ratio,       \* shuffle_and_split's argument
    i,           \* create_dataset's loop variable
    dataset,     \* the list create_dataset accumulates
    requests,    \* the parameters of every HTTP request sent, in order
    outcomes,    \* what each request met, in order
    stdout,      \* the lines printed, in order
    processed,   \* preprocess's return value
    shuffled,    \* the list after random.shuffle
    train_set,
    test_set,
    files,       \* the files written, in order
    calls        \* the functions the script has called, in order

vars == <<pc, days, nb_per_day, ratio, i, dataset, requests, outcomes, stdout,
          processed, shuffled, train_set, test_set, files, calls>>

\* "Retrieving {} posts per day (can't be >500)".format(nb_per_day)
WarnTooMany(n) == "Retrieving " \o ToString(n) \o " posts per day (can't be >500)"
WarnFailed == "[!] Request failed"
Saved(path) == "Data successfully saved under " \o path

\* The script with the files written before the split.
AfterWritesFirst(stage) ==
    CASE stage = "create_dataset" -> "preprocess"
      [] stage = "preprocess" -> "write_train"
      [] stage = "write_train" -> "write_test"
      [] stage = "write_test" -> "shuffle_and_split"
      [] stage = "shuffle_and_split" -> "done"

\* The statements of the script, lines 160-164, in order.
After(stage) ==
    CASE stage = "create_dataset" -> "preprocess"
      [] stage = "preprocess" -> "shuffle_and_split"
      [] stage = "shuffle_and_split" -> "write_train"
      [] stage = "write_train" -> "write_test"
      [] stage = "write_test" -> "done"

Blank ==
    /\ i = 0
    /\ dataset = <<>>
    /\ requests = <<>>
    /\ outcomes = <<>>
    /\ stdout = <<>>
    /\ processed = <<>>
    /\ shuffled = <<>>
    /\ train_set = <<>>
    /\ test_set = <<>>
    /\ files = <<>>
    /\ calls = <<>>

\* The script: create_dataset(days=1095), every other argument defaulted.
Init ==
    /\ pc = "create_dataset"
    /\ days = MainDays
    /\ nb_per_day = DefaultPerDay
    /\ ratio = DefaultRatio
    /\ Blank

\* ---------------------------------------------------------- create_dataset
CreateDatasetEnter ==
    /\ pc = "create_dataset"
    /\ pc' = "loop"
    /\ i' = 0
    /\ dataset' = <<>>
    /\ stdout' = IF nb_per_day > MaxSize THEN Append(stdout, WarnTooMany(nb_per_day)) ELSE stdout
    /\ calls' = Append(calls, "create_dataset")
    /\ UNCHANGED <<days, nb_per_day, ratio, requests, outcomes, processed,
                   shuffled, train_set, test_set, files>>

\* One iteration sends one request.
SendRequest ==
    /\ pc = "loop"
    /\ i < days
    /\ requests' = Append(requests,
                          Parameters("science", BeforeParam(i), RequestSize(nb_per_day)))
    /\ calls' = Append(calls, "get_posts")

\* status 200 and a JSON body with a data list
FetchOk(Pages) ==
    /\ SendRequest
    /\ \E data \in Pages :
          /\ dataset' = dataset \o data
          /\ outcomes' = Append(outcomes, [kind |-> "ok", data |-> data])
    /\ i' = i + 1
    /\ UNCHANGED <<pc, days, nb_per_day, ratio, stdout, processed, shuffled,
                   train_set, test_set, files>>

\* A failed request that ends the run.
FetchNon200Abort ==
    /\ SendRequest
    /\ outcomes' = Append(outcomes, [kind |-> "non200", data |-> <<>>])
    /\ stdout' = Append(stdout, WarnFailed)
    /\ pc' = "crashed"
    /\ UNCHANGED <<days, nb_per_day, ratio, i, dataset, processed, shuffled,
                   train_set, test_set, files>>

\* A failed request that is sent again for the same day.
FetchNon200Retry ==
    /\ SendRequest
    /\ outcomes' = Append(outcomes, [kind |-> "non200", data |-> <<>>])
    /\ stdout' = Append(stdout, WarnFailed)
    /\ UNCHANGED <<pc, days, nb_per_day, ratio, i, dataset, processed, shuffled,
                   train_set, test_set, files>>

\* any other status: get_posts returns None
FetchNon200 ==
    /\ SendRequest
    /\ outcomes' = Append(outcomes, [kind |-> "non200", data |-> <<>>])
    /\ stdout' = Append(stdout, WarnFailed)
    /\ i' = i + 1
    /\ UNCHANGED <<pc, days, nb_per_day, ratio, dataset, processed, shuffled,
                   train_set, test_set, files>>

\* requests.get raises (no connection, timeout, ...): nothing catches it
FetchNetworkError ==
    /\ SendRequest
    /\ outcomes' = Append(outcomes, [kind |-> "network_error", data |-> <<>>])
    /\ pc' = "crashed"
    /\ UNCHANGED <<days, nb_per_day, ratio, i, dataset, stdout, processed,
                   shuffled, train_set, test_set, files>>

\* status 200 with a body that is not JSON, or JSON without the data key:
\* json.loads or posts['data'] raises
FetchMalformed ==
    /\ SendRequest
    /\ outcomes' = Append(outcomes, [kind |-> "malformed", data |-> <<>>])
    /\ pc' = "crashed"
    /\ UNCHANGED <<days, nb_per_day, ratio, i, dataset, stdout, processed,
                   shuffled, train_set, test_set, files>>

CreateDatasetReturn ==
    /\ pc = "loop"
    /\ i >= days
    /\ pc' = After("create_dataset")
    /\ UNCHANGED <<days, nb_per_day, ratio, i, dataset, requests, outcomes,
                   stdout, processed, shuffled, train_set, test_set, files, calls>>

\* -------------------------------------------------------------- preprocess
Preprocess ==
    /\ pc = "preprocess"
    /\ calls' = Append(calls, "preprocess")
    /\ IF PreprocessRaises(dataset)
       THEN /\ pc' = "crashed"
            /\ processed' = processed
       ELSE /\ pc' = After("preprocess")
            /\ processed' = PreprocessResult(dataset)
    /\ UNCHANGED <<days, nb_per_day, ratio, i, dataset, requests, outcomes,
                   stdout, shuffled, train_set, test_set, files>>

\* ------------------------------------------------------- shuffle_and_split
ShuffleAndSplit ==
    /\ pc = "shuffle_and_split"
    /\ calls' = Append(calls, "shuffle_and_split")
    /\ \E s \in Shuffles(processed) :
          /\ shuffled' = s
          /\ train_set' = TrainSlice(s, SplitIndex(ratio, Len(s)))
          /\ test_set' = TestSlice(s, SplitIndex(ratio, Len(s)))
    /\ pc' = After("shuffle_and_split")
    /\ UNCHANGED <<days, nb_per_day, ratio, i, dataset, requests, outcomes,
                   stdout, processed, files>>

\* ------------------------------------------------------------ write_to_csv
WriteToCsv(stage, ds, filename) ==
    /\ pc = stage
    /\ calls' = Append(calls, "write_to_csv")
    /\ files' = Append(files, CsvFile(PathJoin(DATA_PATH, filename), ds))
    /\ stdout' = Append(stdout, Saved(PathJoin(DATA_PATH, filename)))
    /\ pc' = After(stage)
    /\ UNCHANGED <<days, nb_per_day, ratio, i, dataset, requests, outcomes,
                   processed, shuffled, train_set, test_set>>

\* os.makedirs or open raises: nothing is written, nothing catches it
WriteFails(stage) ==
    /\ pc = stage
    /\ calls' = Append(calls, "write_to_csv")
    /\ pc' = "crashed"
    /\ UNCHANGED <<days, nb_per_day, ratio, i, dataset, requests, outcomes,
                   stdout, processed, shuffled, train_set, test_set, files>>

WriteTrain == WriteToCsv("write_train", train_set, "train.csv")

WriteTest == WriteToCsv("write_test", test_set, "test.csv")

WriteTrainFails == WriteFails("write_train")

WriteTestFails == WriteFails("write_test")

\* ---------------------------------------------------------- specifications
Next ==
    \/ CreateDatasetEnter
    \/ FetchOk(MainPages)
    \/ FetchNon200
    \/ FetchNetworkError
    \/ FetchMalformed
    \/ CreateDatasetReturn
    \/ Preprocess
    \/ ShuffleAndSplit
    \/ WriteTrain
    \/ WriteTrainFails
    \/ WriteTest
    \/ WriteTestFails

Spec == Init /\ [][Next]_vars

\* create_dataset alone, for every days and nb_per_day.
InitCollect ==
    /\ pc = "create_dataset"
    /\ days \in 0..MaxDays
    /\ nb_per_day \in PerDayValues
    /\ ratio = DefaultRatio
    /\ Blank

NextCollect ==
    \/ CreateDatasetEnter
    \/ FetchOk(CollectPages)
    \/ FetchNon200
    \/ FetchNetworkError
    \/ FetchMalformed
    \/ CreateDatasetReturn

SpecCollect == InitCollect /\ [][NextCollect]_vars

\* preprocess alone, on every list of raw posts up to MaxLen.
InitPreprocess ==
    /\ pc = "preprocess"
    /\ days = 0
    /\ nb_per_day = DefaultPerDay
    /\ ratio = DefaultRatio
    /\ i = 0
    /\ dataset \in BoundedSeq(RawPosts, MaxLen)
    /\ requests = <<>>
    /\ outcomes = <<>>
    /\ stdout = <<>>
    /\ processed = <<>>
    /\ shuffled = <<>>
    /\ train_set = <<>>
    /\ test_set = <<>>
    /\ files = <<>>
    /\ calls = <<>>

NextPreprocess == Preprocess

SpecPreprocess == InitPreprocess /\ [][NextPreprocess]_vars

\* shuffle_and_split alone, on every list up to MaxLen and every ratio k/RatioDen.
InitSplit ==
    /\ pc = "shuffle_and_split"
    /\ days = 0
    /\ nb_per_day = DefaultPerDay
    /\ ratio \in Ratios
    /\ i = 0
    /\ dataset = <<>>
    /\ requests = <<>>
    /\ outcomes = <<>>
    /\ stdout = <<>>
    /\ processed \in BoundedSeq(SplitItems, MaxLen)
    /\ shuffled = <<>>
    /\ train_set = <<>>
    /\ test_set = <<>>
    /\ files = <<>>
    /\ calls = <<>>

NextSplit == ShuffleAndSplit

SpecSplit == InitSplit /\ [][NextSplit]_vars

\* ------------------------------------------------------------------ claims
Count(x, s) == Cardinality({k \in 1..Len(s) : s[k] = x})

Returned == pc = "shuffle_and_split"

\* C1: when preprocess returns normally, no two records of its output are
\* equal.
C1_NoEqualOutputRecords ==
    Returned =>
        \A a, b \in 1..Len(processed) : a # b => processed[a] # processed[b]

\* C2: when preprocess returns normally, every record of its output has a
\* non-null link_flair_text.
C2_FlairNeverNull ==
    Returned =>
        \A k \in 1..Len(processed) : processed[k]["link_flair_text"] # NULL

\* C3: shuffle_and_split partitions its input: the two lengths add up to the
\* input's, the train length is floor(ratio * length), every element occurs in
\* train and test together as often as in the input, the slices are the two
\* contiguous parts of the shuffled list, ratio 0 gives an empty train set and
\* ratio 1 an empty test set.
C3_SplitIsPartition ==
    pc = "write_train" =>
        LET n == Len(processed)
            t == Len(train_set)
        IN  /\ t + Len(test_set) = n
            /\ t * ratio[2] <= ratio[1] * n
            /\ ratio[1] * n < (t + 1) * ratio[2]
            /\ \A x \in Range(processed) \cup Range(train_set) \cup Range(test_set) :
                  Count(x, train_set) + Count(x, test_set) = Count(x, processed)
            /\ train_set \o test_set = shuffled
            /\ ratio[1] = 0 => train_set = <<>> /\ Len(test_set) = n
            /\ ratio[1] = ratio[2] => test_set = <<>> /\ Len(train_set) = n

C3_Witness ==
    /\ pc = "write_train"
    /\ Len(processed) = 3
    /\ Len(train_set) = 2
    /\ Len(test_set) = 1
    /\ shuffled # processed
    /\ Cardinality(Range(processed)) = 2

\* The pages of the days that succeeded, concatenated in day order.
RECURSIVE OkData(_)
OkData(os) ==
    IF os = <<>> THEN <<>>
    ELSE OkData(SubSeq(os, 1, Len(os) - 1)) \o
         (IF os[Len(os)].kind = "ok" THEN os[Len(os)].data ELSE <<>>)

FailedDays == {k \in 1..Len(outcomes) : outcomes[k].kind = "non200"}

\* C4: whatever days return the failure signal, create_dataset goes on to the
\* next day, returns the pages of the successful days concatenated in day
\* order, and prints the warning once per failed day.
C4_FailureTolerance ==
    /\ dataset = OkData(outcomes)
    /\ Count(WarnFailed, stdout) = Cardinality(FailedDays)
    /\ pc = "crashed" => outcomes[Len(outcomes)].kind \notin {"ok", "non200"}
    /\ pc = "loop" /\ outcomes # <<>> /\ outcomes[Len(outcomes)].kind = "non200"
          => i = Len(outcomes)
    /\ pc = "preprocess" => Len(outcomes) = days

C4_Witness ==
    /\ pc = "preprocess"
    /\ Len(outcomes) >= 2
    /\ outcomes[1].kind = "non200"
    /\ outcomes[2].kind = "ok"
    /\ Len(outcomes[2].data) = 2
    /\ outcomes[2].data[1] # outcomes[2].data[2]
    /\ dataset = outcomes[2].data

\* C5: a failed fetch of either kind, a non-200 response or a network error
\* raised by the HTTP call, is answered by one warning, adds no record and
\* does not end the run.
C5_EveryFailureRecovered ==
    LET failed == {k \in 1..Len(outcomes) :
                      outcomes[k].kind \in {"non200", "network_error"}}
    IN  /\ Count(WarnFailed, stdout) = Cardinality(failed)
        /\ dataset = OkData(outcomes)
        /\ pc = "crashed" => Len(outcomes) \notin failed

\* The flaired inputs, and those of them that carry all four wanted keys.
FlairedInputs == {k \in 1..Len(dataset) : "link_flair_text" \in DOMAIN dataset[k]}

IsProjectionOf(out, raw) ==
    /\ DOMAIN out = {"author", "created_utc", "title", "link_flair_text"}
    /\ \A key \in DOMAIN out : key \in DOMAIN raw /\ out[key] = raw[key]

\* C6: when preprocess returns normally, its output holds one record per
\* distinct flaired input record, in order of first occurrence, each with
\* exactly the four wanted keys and the raw record's values; a record without
\* the link_flair_text key contributes nothing.
C6_Projection ==
    Returned =>
        /\ Len(processed) = Cardinality({dataset[k] : k \in FlairedInputs})
        /\ \A k \in FlairedInputs :
              \E j \in 1..Len(processed) : IsProjectionOf(processed[j], dataset[k])
        /\ \E f \in [1..Len(processed) -> 1..Len(dataset)] :
              /\ \A j \in 1..Len(processed) :
                    /\ f[j] \in FlairedInputs
                    /\ IsProjectionOf(processed[j], dataset[f[j]])
              /\ \A j1, j2 \in 1..Len(processed) : j1 < j2 => f[j1] < f[j2]

C6_Witness ==
    /\ Returned
    /\ Len(dataset) = 3
    /\ Len(processed) = 1
    /\ "link_flair_text" \notin DOMAIN dataset[1]
    /\ DOMAIN dataset[2] = Keys
    /\ dataset[3] = dataset[2]
    /\ DOMAIN processed[1] # DOMAIN dataset[2]

Expected(n) ==
    <<"create_dataset">> \o [k \in 1..n |-> "get_posts"] \o
    <<"preprocess", "shuffle_and_split", "write_to_csv", "write_to_csv">>

\* C7: the calls of a run occur in the order create_dataset with all its
\* fetches, preprocess once, shuffle_and_split once, write_to_csv twice; a
\* complete run has made all of them, one fetch per day, and has written
\* train.csv from the train slice and then test.csv from the test slice.
C7_StageOrder ==
    /\ Len(calls) <= Len(Expected(Len(requests)))
    /\ calls = SubSeq(Expected(Len(requests)), 1, Len(calls))
    /\ calls # <<>> => Len(calls) >= 1 + Len(requests)
    /\ Len(files) <= 2
    /\ files # <<>> => Count("shuffle_and_split", calls) = 1
    /\ Len(files) <= Count("write_to_csv", calls)
    /\ "preprocess" \in Range(calls) => Len(requests) = days
    /\ pc = "done" =>
          /\ calls = Expected(days)
          /\ Len(files) = 2
          /\ files[1].path = "./data/train.csv"
          /\ files[2].path = "./data/test.csv"
          /\ Len(files[1].rows) = Len(train_set)
          /\ Len(files[2].rows) = Len(test_set)
          /\ train_set \o test_set = shuffled

C7_Witness ==
    /\ pc = "done"
    /\ Len(requests) = days
    /\ days >= 2
    /\ Len(train_set) + Len(test_set) = 2

MissingField ==
    \E k \in 1..Len(dataset) :
        /\ "link_flair_text" \in DOMAIN dataset[k]
        /\ ~ ({"author", "created_utc", "title"} \subseteq DOMAIN dataset[k])

\* C8: once the collected posts hold a flaired record that lacks author,
\* created_utc or title, the run ends in preprocess: no result is produced,
\* nothing is split and neither file is written.
C8_MissingFieldFatal ==
    (MissingField /\ pc \notin {"create_dataset", "loop", "preprocess"}) =>
        /\ pc = "crashed"
        /\ processed = <<>>
        /\ train_set = <<>>
        /\ test_set = <<>>
        /\ files = <<>>
        /\ "shuffle_and_split" \notin Range(calls)
        /\ "write_to_csv" \notin Range(calls)
        /\ "preprocess" \in Range(calls) => calls[Len(calls)] = "preprocess"

C8_Witness ==
    /\ MissingField
    /\ pc = "crashed"
    /\ calls # <<>>
    /\ calls[Len(calls)] = "preprocess"
    /\ \E k \in 1..Len(dataset) : WantedSet \subseteq DOMAIN dataset[k]

\* C9: every request carries size = min(nb_per_day, 500); when nb_per_day
\* exceeds 500 one warning is printed before the first request, and the loop
\* still runs over all days.
C9_SizeClamped ==
    /\ \A k \in 1..Len(requests) :
          /\ requests[k].size <= 500
          /\ requests[k].size <= nb_per_day
          /\ requests[k].size = 500 \/ requests[k].size = nb_per_day
    /\ pc # "create_dataset" =>
          IF nb_per_day > 500
          THEN /\ stdout # <<>>
               /\ stdout[1] # WarnFailed
               /\ nb_per_day = 501 =>
                     stdout[1] = "Retrieving 501 posts per day (can't be >500)"
               /\ Cardinality({k \in 1..Len(stdout) : stdout[k] # WarnFailed}) = 1
          ELSE \A k \in 1..Len(stdout) : stdout[k] = WarnFailed
    /\ pc = "create_dataset" => stdout = <<>> /\ requests = <<>>
    /\ pc = "crashed" => outcomes # <<>>
    /\ pc = "preprocess" => Len(requests) = days

C9_Witness ==
    /\ pc = "preprocess"
    /\ nb_per_day > 500
    /\ Len(requests) >= 2
    /\ requests[2].size = 500
    /\ stdout # <<>>

DayLabels == <<"0d", "1d", "2d", "3d", "4d", "5d">>

\* C10: create_dataset sends its requests for the day offsets 0, 1, 2, ... in
\* increasing order, one per iteration and none twice, at most days of them,
\* and exactly days of them when it returns; with days = 0 it sends none and
\* returns the empty list.
C10_OneCallPerDay ==
    /\ Len(requests) <= days
    /\ \A k \in 1..Len(requests) :
          /\ k <= Len(DayLabels) => requests[k].before = DayLabels[k]
          /\ requests[k].subreddit = "science"
          /\ \A m \in 1..Len(requests) :
                requests[k].before = requests[m].before => k = m
    /\ Len(outcomes) = Len(requests)
    /\ pc = "loop" => i = Len(requests)
    /\ pc = "preprocess" => Len(requests) = days
    /\ days = 0 /\ pc = "preprocess" => requests = <<>> /\ dataset = <<>>

C10_Witness ==
    /\ pc = "preprocess"
    /\ days >= 2
    /\ Len(requests) = days
    /\ outcomes[1].kind = "non200"
    /\ requests[2].before = "1d"

====
